---- MODULE Spec2Model ----
(***************************************************************************)
(* A model of the log-structured key-value store of                        *)
(* courses/rust/projects/project-2 (src/kv.rs, src/error.rs).              *)
(*                                                                         *)
(* The log file is a sequence of bytes (integers 0..255).  A frame is a    *)
(* 4-byte little-endian length followed by the serde_json text of a        *)
(* KvPair.  Keys and values are short strings of characters that need no   *)
(* JSON escaping.                                                          *)
(***************************************************************************)
EXTENDS Integers, Sequences, FiniteSets

(***************************************************************************)
(* Bounds of the model.                                                    *)
(***************************************************************************)
\* Number of distinct keys ("a", "b", ...) and values ("1", "2", ...).
NumKeys == 2
NumValues == 2
\* set/remove calls that reach append in one behaviour.
MaxCalls == 6
\* I/O faults the environment injects into set/remove in one behaviour.
MaxFaults == 1
\* Times the store is dropped (and then reopened) in one behaviour.
MaxDrops == 1
\* The compaction threshold of KvStore::append, scaled down from the
\* 10_000 of kv.rs line 149 so that compactions happen within the bounds.
Threshold == 1

Keys == { <<96 + i>> : i \in 1..NumKeys }
Values == { <<48 + i>> : i \in 1..NumValues }

(***************************************************************************)
(* Option<String>, and results.                                            *)
(***************************************************************************)
None == [some |-> FALSE, s |-> <<>>]
Some(v) == [some |-> TRUE, s |-> v]

Ok(v) == [kind |-> "Ok", value |-> v]
Err(k) == [kind |-> k, value |-> None]
\* KvsError (error.rs): the variants, as result kinds.
KvsError == {"UnexpectedEOF", "IoError", "KeyNotFound", "SerdeError"}

(***************************************************************************)
(* Record codec: serde_json::to_string / from_slice of KvPair, and the     *)
(* u32 little-endian length prefix.                                        *)
(***************************************************************************)
\* u32::to_le_bytes(n as u32): the four low bytes of n.
to_le_bytes(n) ==
    << n % 256, (n \div 256) % 256, (n \div 65536) % 256, (n \div 16777216) % 256 >>

\* u32::from_le_bytes
from_le_bytes(b) == b[1] + 256 * b[2] + 65536 * b[3] + 16777216 * b[4]

\* "{\"key\":"  and  ",\"value\":"  and  "null"
TokKey == <<123, 34, 107, 101, 121, 34, 58>>
TokValue == <<44, 34, 118, 97, 108, 117, 101, 34, 58>>
TokNull == <<110, 117, 108, 108>>

JsonString(s) == <<34>> \o s \o <<34>>

\* serde_json::to_string(&KvPair { key, value })
to_string(key, value) ==
    TokKey \o JsonString(key) \o TokValue
      \o (IF value.some THEN JsonString(value.s) ELSE TokNull) \o <<125>>

StartsWith(b, i, p) ==
    /\ i + Len(p) - 1 <= Len(b)
    /\ SubSeq(b, i, i + Len(p) - 1) = p

\* A JSON string starting at b[i]: an opening quote, characters that are
\* neither control characters, quotes nor backslashes, a closing quote.
ParseString(b, i) ==
    IF i > Len(b) \/ b[i] # 34 THEN [ok |-> FALSE, s |-> <<>>, next |-> i]
    ELSE LET closing == { j \in (i + 1)..Len(b) : b[j] = 34 }
         IN  IF closing = {} THEN [ok |-> FALSE, s |-> <<>>, next |-> i]
             ELSE LET j == CHOOSE x \in closing : \A y \in closing : x <= y
                      s == SubSeq(b, i + 1, j - 1)
                  IN  IF \A n \in 1..Len(s) : s[n] >= 32 /\ s[n] # 92 /\ s[n] < 128
                      THEN [ok |-> TRUE, s |-> s, next |-> j + 1]
                      ELSE [ok |-> FALSE, s |-> <<>>, next |-> i]

\* serde_json::from_slice::<KvPair>(bytes), for the byte strings that occur
\* in the log: the object as to_string writes it, with nothing after it.
from_slice(b) ==
    LET bad == [ok |-> FALSE, key |-> <<>>, value |-> None]
    IN  IF ~StartsWith(b, 1, TokKey) THEN bad
        ELSE LET k == ParseString(b, Len(TokKey) + 1)
             IN  IF ~k.ok \/ ~StartsWith(b, k.next, TokValue) THEN bad
                 ELSE LET vi == k.next + Len(TokValue)
                      IN  IF StartsWith(b, vi, TokNull)
                          THEN IF SubSeq(b, vi + 4, Len(b)) = <<125>>
                               THEN [ok |-> TRUE, key |-> k.s, value |-> None]
                               ELSE bad
                          ELSE LET v == ParseString(b, vi)
                               IN  IF v.ok /\ SubSeq(b, v.next, Len(b)) = <<125>>
                                   THEN [ok |-> TRUE, key |-> k.s, value |-> Some(v.s)]
                                   ELSE bad

\* One frame of the log: length prefix and payload.
Frame(key, value) ==
    LET bytes == to_string(key, value)
    IN  to_le_bytes(Len(bytes)) \o bytes

(***************************************************************************)
(* The file system: the file at data_file, and positional reads.           *)
(***************************************************************************)
NoFile == [exists |-> FALSE, bytes |-> <<>>]
FileOf(bytes) == [exists |-> TRUE, bytes |-> bytes]

\* seek(SeekFrom::Start(start)) then read_exact of len bytes.
read_exact(bytes, start, len) ==
    IF start + len <= Len(bytes)
    THEN [ok |-> TRUE, data |-> SubSeq(bytes, start + 1, start + len)]
    ELSE [ok |-> FALSE, data |-> <<>>]

\* struct Offset
Offset(start, len) == [start |-> start, len |-> len]

\* HashMap::insert / HashMap::remove on the offsets map.
MapInsert(m, k, o) == [x \in (DOMAIN m) \cup {k} |-> IF x = k THEN o ELSE m[x]]
MapRemove(m, k) == [x \in (DOMAIN m) \ {k} |-> m[x]]
EmptyMap == [x \in {} |-> Offset(0, 0)]


(***************************************************************************)
(* KvStore::open: the replay loop of kv.rs lines 59-85.                    *)
(***************************************************************************)
\* Mutant of OpenLoop: a tombstone leaves the key in the index.
RECURSIVE OpenLoop_KeepsDeleted(_, _, _)
OpenLoop_KeepsDeleted(bytes, offset, offs) ==
    IF ~(offset < Len(bytes)) THEN [kind |-> "Ok", offsets |-> offs]
    ELSE LET size_buffer == read_exact(bytes, offset, 4)
         IN  IF ~size_buffer.ok THEN [kind |-> "IoError", offsets |-> EmptyMap]
             ELSE LET data_size == from_le_bytes(size_buffer.data)
                      data_buffer == read_exact(bytes, offset + 4, data_size)
                  IN  IF ~data_buffer.ok THEN [kind |-> "IoError", offsets |-> EmptyMap]
                      ELSE LET pair == from_slice(data_buffer.data)
                           IN  IF ~pair.ok THEN [kind |-> "SerdeError", offsets |-> EmptyMap]
                               ELSE OpenLoop_KeepsDeleted(bytes, offset + 4 + data_size,
                                             IF pair.value.some
                                             THEN MapInsert(offs, pair.key, Offset(offset + 4, data_size))
                                             ELSE offs)

RECURSIVE OpenLoop(_, _, _)
OpenLoop(bytes, offset, offs) ==
    IF ~(offset < Len(bytes)) THEN [kind |-> "Ok", offsets |-> offs]
    ELSE LET size_buffer == read_exact(bytes, offset, 4)
         IN  IF ~size_buffer.ok THEN [kind |-> "IoError", offsets |-> EmptyMap]
             ELSE LET data_size == from_le_bytes(size_buffer.data)
                      data_buffer == read_exact(bytes, offset + 4, data_size)
                  IN  IF ~data_buffer.ok THEN [kind |-> "IoError", offsets |-> EmptyMap]
                      ELSE LET pair == from_slice(data_buffer.data)
                           IN  IF ~pair.ok THEN [kind |-> "SerdeError", offsets |-> EmptyMap]
                               ELSE OpenLoop(bytes, offset + 4 + data_size,
                                             IF pair.value.some
                                             THEN MapInsert(offs, pair.key, Offset(offset + 4, data_size))
                                             ELSE MapRemove(offs, pair.key))

\* KvStore::open without an injected I/O fault: the outcome and the index.
OpenResult(f) ==
    IF ~f.exists THEN [kind |-> "Ok", offsets |-> EmptyMap]
    ELSE OpenLoop(f.bytes, 0, EmptyMap)

(***************************************************************************)
(* KvStore::get without an injected I/O fault, on a file and an index.     *)
(***************************************************************************)
\* Mutant of GetOf: a key that is not in the index is an error, as in remove.
GetOf_MissingKeyIsError(f, offs, key) ==
    IF key \notin DOMAIN offs THEN Err("KeyNotFound")
    ELSE IF ~f.exists THEN Err("IoError")
    ELSE LET data_buffer == read_exact(f.bytes, offs[key].start, offs[key].len)
         IN  IF ~data_buffer.ok THEN Err("IoError")
             ELSE LET pair == from_slice(data_buffer.data)
                  IN  IF ~pair.ok THEN Err("SerdeError") ELSE Ok(pair.value)

GetOf(f, offs, key) ==
    IF key \notin DOMAIN offs THEN Ok(None)
    ELSE IF ~f.exists THEN Err("IoError")
    ELSE LET data_buffer == read_exact(f.bytes, offs[key].start, offs[key].len)
         IN  IF ~data_buffer.ok THEN Err("IoError")
             ELSE LET pair == from_slice(data_buffer.data)
                  IN  IF ~pair.ok THEN Err("SerdeError") ELSE Ok(pair.value)

(***************************************************************************)
(* State.                                                                  *)
(***************************************************************************)
VARIABLES
    file,        \* the file at data_file: [exists, bytes]
    opened,      \* TRUE while a KvStore value is alive
    offsets,     \* KvStore.offsets
    operations,  \* KvStore.operations
    pc,          \* "idle", or the position inside KvStore::compaction
    tmp,         \* bytes written to the NamedTempFile of compaction
    todo,        \* keys of offsets.values() not yet visited by compaction
    call,        \* the call in progress or last returned
    result,      \* what that call returned ("Pending" while in progress)
    faults,      \* I/O faults injected so far
    calls,       \* set/remove calls that reached append so far
    drops,       \* drops of the store so far
    last,        \* history: per key, the last set/remove call on this store
    everSet,     \* history: keys for which set was ever called
    allOk,       \* history: no set/remove of this store failed with an I/O error
    snap         \* history: file and index at the start of compaction / at drop

vars == <<file, opened, offsets, operations, pc, tmp, todo, call, result,
          faults, calls, drops, last, everSet, allOk, snap>>

store == <<file, opened, offsets, operations, pc, tmp, todo>>

\* A call: its arguments, whether an I/O fault is injected into it, and
\* whether its key is in the index when it starts.
Call(op, key, value, fault) ==
    [op |-> op, key |-> key, value |-> value, fault |-> fault,
     had |-> key \in DOMAIN offsets]
Pending == [kind |-> "Pending", value |-> None]

NoSnap == [kind |-> "none", file |-> NoFile, offsets |-> EmptyMap, clean |-> TRUE, step |-> "none"]
Snapshot(kind, f, offs, clean) ==
    [kind |-> kind, file |-> f, offsets |-> offs, clean |-> clean, step |-> "none"]

Unknown == [st |-> "unknown", v |-> <<>>]
WasSet(v) == [st |-> "set", v |-> v]
WasRemoved == [st |-> "removed", v |-> <<>>]
LastOf(value) == IF value.some THEN WasSet(value.s) ELSE WasRemoved

Init ==
    /\ file = NoFile
    /\ opened = FALSE
    /\ offsets = EmptyMap
    /\ operations = 0
    /\ pc = "idle"
    /\ tmp = <<>>
    /\ todo = {}
    /\ call = Call("none", <<>>, None, FALSE)
    /\ result = Ok(None)
    /\ faults = 0
    /\ calls = 0
    /\ drops = 0
    /\ last = [k \in Keys |-> Unknown]
    /\ everSet = {}
    /\ allOk = TRUE
    /\ snap = NoSnap

(***************************************************************************)
(* open and drop.                                                          *)
(***************************************************************************)
Open ==
    /\ ~opened /\ pc = "idle"
    /\ LET r == OpenResult(file)
       IN  /\ result' = [kind |-> r.kind, value |-> None]
           /\ opened' = (r.kind = "Ok")
           /\ offsets' = r.offsets
    /\ operations' = 0
    /\ call' = Call("open", <<>>, None, FALSE)
    /\ allOk' = TRUE
    /\ UNCHANGED <<file, pc, tmp, todo, faults, calls, drops, last, everSet, snap>>

\* File::open or fs::metadata fails (kv.rs lines 50-51).
OpenIoFault ==
    /\ ~opened /\ pc = "idle" /\ file.exists
    /\ result' = Err("IoError")
    /\ call' = Call("open", <<>>, None, TRUE)
    /\ UNCHANGED <<store, faults, calls, drops, last, everSet, allOk, snap>>

\* The KvStore value goes out of scope; the file stays.
Drop ==
    /\ opened /\ pc = "idle" /\ drops < MaxDrops
    /\ drops' = drops + 1
    /\ opened' = FALSE
    /\ snap' = Snapshot("drop", file, offsets, allOk)
    /\ offsets' = EmptyMap
    /\ operations' = 0
    /\ call' = Call("drop", <<>>, None, FALSE)
    /\ result' = Ok(None)
    /\ last' = [k \in Keys |-> Unknown]
    /\ UNCHANGED <<file, pc, tmp, todo, faults, calls, everSet, allOk>>

(***************************************************************************)
(* get.                                                                    *)
(***************************************************************************)
\* Mutant of Get: get counts as an operation.
Get_CountsOperation(key) ==
    /\ opened /\ pc = "idle"
    /\ result' = GetOf(file, offsets, key)
    /\ call' = Call("get", key, None, FALSE)
    /\ snap' = NoSnap
    /\ operations' = operations + 1
    /\ UNCHANGED <<file, opened, offsets, pc, tmp, todo, faults, calls, drops,
                   last, everSet, allOk>>
Get(key) ==
    /\ opened /\ pc = "idle"
    /\ result' = GetOf(file, offsets, key)
    /\ call' = Call("get", key, None, FALSE)
    /\ snap' = NoSnap
    /\ UNCHANGED <<store, faults, calls, drops, last, everSet, allOk>>

\* File::open, seek or read_exact fails for a reason outside the model
\* (kv.rs lines 103-106); only reached when the key is in the index.
GetIoFault(key) ==
    /\ opened /\ pc = "idle" /\ key \in DOMAIN offsets
    /\ result' = Err("IoError")
    /\ call' = Call("get", key, None, TRUE)
    /\ snap' = NoSnap
    /\ UNCHANGED <<store, faults, calls, drops, last, everSet, allOk>>

(***************************************************************************)
(* set, remove and KvStore::append.                                        *)
(***************************************************************************)
\* The index after the frame of (key, value) was written at file_size
\* (kv.rs lines 138-146).
UpdateOffsets(offs, key, value, file_size, size) ==
    IF value.some
    THEN MapInsert(offs, key, Offset(file_size + 4, size))
    ELSE MapRemove(offs, key)

\* Mutant of NeedsCompaction: compaction already runs when the counter
\* reaches the threshold.
NeedsCompaction_AtThreshold(ops) == ops >= Threshold
\* The counter makes append call compaction (kv.rs line 149).
NeedsCompaction(ops) == ops > Threshold

\* Mutant of append: the log is opened with truncate instead of append, the
\* frame replaces the log.
append_Truncates(op, key, value) ==
    LET bytes == to_string(key, value)
        size == Len(bytes)
        newFile == FileOf(to_le_bytes(size) \o bytes)
        newOffsets == UpdateOffsets(offsets, key, value, 0, size)
    IN  /\ file' = newFile
        /\ offsets' = newOffsets
        /\ operations' = operations + 1
        /\ call' = Call(op, key, value, FALSE)
        /\ last' = [last EXCEPT ![key] = LastOf(value)]
        /\ IF NeedsCompaction(operations + 1)
           THEN /\ pc' = "compact_open"
                /\ result' = Pending
                /\ snap' = Snapshot("compact", newFile, newOffsets, allOk)
           ELSE /\ pc' = "idle"
                /\ result' = Ok(None)
                /\ snap' = NoSnap
        /\ UNCHANGED <<opened, tmp, todo, faults, allOk>>
\* append, every I/O call succeeding, up to the call of compaction.
append(op, key, value) ==
    LET bytes == to_string(key, value)
        size == Len(bytes)
        file_size == Len(file.bytes)
        newFile == FileOf(file.bytes \o to_le_bytes(size) \o bytes)
        newOffsets == UpdateOffsets(offsets, key, value, file_size, size)
    IN  /\ file' = newFile
        /\ offsets' = newOffsets
        /\ operations' = operations + 1
        /\ call' = Call(op, key, value, FALSE)
        /\ last' = [last EXCEPT ![key] = LastOf(value)]
        /\ IF NeedsCompaction(operations + 1)
           THEN /\ pc' = "compact_open"
                /\ result' = Pending
                /\ snap' = Snapshot("compact", newFile, newOffsets, allOk)
           ELSE /\ pc' = "idle"
                /\ result' = Ok(None)
                /\ snap' = NoSnap
        /\ UNCHANGED <<opened, tmp, todo, faults, allOk>>

\* OpenOptions::open or seek fails (kv.rs lines 128-133): nothing was written.
AppendOpenFault(op, key, value) ==
    /\ faults < MaxFaults
    /\ faults' = faults + 1
    /\ call' = Call(op, key, value, TRUE)
    /\ result' = Err("IoError")
    /\ last' = [last EXCEPT ![key] = Unknown]
    /\ allOk' = FALSE
    /\ snap' = NoSnap
    /\ UNCHANGED store

\* The byte counts a failing write_all may leave behind, of a frame of n
\* bytes: half the prefix (the first write_all fails), or the prefix and all
\* of the payload but its last byte (the second write_all fails).
TornWrites(n) == {2, n - 1}

\* Mutant of AppendWriteFault: the index is updated before the frame is
\* written.
AppendWriteFault_IndexFirst(op, key, value) ==
    /\ faults < MaxFaults
    /\ \E w \in TornWrites(Len(Frame(key, value))) :
          file' = FileOf(file.bytes \o SubSeq(Frame(key, value), 1, w))
    /\ offsets' = UpdateOffsets(offsets, key, value, Len(file.bytes),
                                Len(to_string(key, value)))
    /\ faults' = faults + 1
    /\ call' = Call(op, key, value, TRUE)
    /\ result' = Err("IoError")
    /\ last' = [last EXCEPT ![key] = Unknown]
    /\ allOk' = FALSE
    /\ snap' = NoSnap
    /\ UNCHANGED <<opened, operations, pc, tmp, todo>>
\* write_all fails (kv.rs lines 134-135) after w bytes of the frame.
AppendWriteFault(op, key, value) ==
    /\ faults < MaxFaults
    /\ \E w \in TornWrites(Len(Frame(key, value))) :
          file' = FileOf(file.bytes \o SubSeq(Frame(key, value), 1, w))
    /\ faults' = faults + 1
    /\ call' = Call(op, key, value, TRUE)
    /\ result' = Err("IoError")
    /\ last' = [last EXCEPT ![key] = Unknown]
    /\ allOk' = FALSE
    /\ snap' = NoSnap
    /\ UNCHANGED <<opened, offsets, operations, pc, tmp, todo>>

CanAppend == opened /\ pc = "idle" /\ calls < MaxCalls

Set(key, value) ==
    /\ CanAppend
    /\ everSet' = everSet \cup {key}
    /\ calls' = calls + 1
    /\ UNCHANGED drops
    /\ \/ append("set", key, Some(value))
       \/ AppendOpenFault("set", key, Some(value))
       \/ AppendWriteFault("set", key, Some(value))

Remove(key) ==
    /\ CanAppend
    /\ key \in DOMAIN offsets
    /\ UNCHANGED everSet
    /\ calls' = calls + 1
    /\ UNCHANGED drops
    /\ \/ append("remove", key, None)
       \/ AppendOpenFault("remove", key, None)
       \/ AppendWriteFault("remove", key, None)

\* Mutant of RemoveMissing: the tombstone is appended before the index is
\* looked up.
RemoveMissing_AppendsTombstone(key) ==
    /\ opened /\ pc = "idle"
    /\ key \notin DOMAIN offsets
    /\ file' = FileOf(file.bytes \o Frame(key, None))
    /\ call' = Call("remove", key, None, FALSE)
    /\ result' = Err("KeyNotFound")
    /\ snap' = NoSnap
    /\ UNCHANGED <<opened, offsets, operations, pc, tmp, todo, faults, calls,
                   drops, last, everSet, allOk>>
\* remove of a key that is not in the index (kv.rs line 119).
RemoveMissing(key) ==
    /\ opened /\ pc = "idle"
    /\ key \notin DOMAIN offsets
    /\ call' = Call("remove", key, None, FALSE)
    /\ result' = Err("KeyNotFound")
    /\ snap' = NoSnap
    /\ UNCHANGED <<store, faults, calls, drops, last, everSet, allOk>>

(***************************************************************************)
(* KvStore::compaction, one step per I/O call group, and the return of     *)
(* append after it.                                                        *)
(***************************************************************************)
\* File::open of the log and NamedTempFile::new (kv.rs lines 161-162).
CompactOpen ==
    /\ pc = "compact_open"
    /\ pc' = "compact_copy"
    /\ tmp' = <<>>
    /\ todo' = DOMAIN offsets
    /\ UNCHANGED <<file, opened, offsets, operations, call, result, faults,
                   calls, drops, last, everSet, allOk, snap>>

\* Mutant of CompactionFailed: append resets the counter whether or not
\* compaction succeeded.
CompactionFailed_ResetsCounter(step, injected) ==
    /\ pc' = "idle"
    /\ tmp' = <<>>
    /\ todo' = {}
    /\ operations' = 0
    /\ result' = Err("IoError")
    /\ last' = [last EXCEPT ![call.key] = Unknown]
    /\ allOk' = FALSE
    /\ snap' = [snap EXCEPT !.step = step]
    /\ call' = [call EXCEPT !.fault = injected]
    /\ UNCHANGED <<file, opened, offsets, calls, drops, everSet>>
\* Mutant of CompactionFailed: the frames copied so far are already at the
\* log's path when compaction fails (the new log is written in place).
CompactionFailed_WritesInPlace(step, injected) ==
    /\ pc' = "idle"
    /\ file' = FileOf(tmp)
    /\ tmp' = <<>>
    /\ todo' = {}
    /\ result' = Err("IoError")
    /\ last' = [last EXCEPT ![call.key] = Unknown]
    /\ allOk' = FALSE
    /\ snap' = [snap EXCEPT !.step = step]
    /\ call' = [call EXCEPT !.fault = injected]
    /\ UNCHANGED <<opened, offsets, operations, calls, drops, everSet>>

\* compaction returns Err, append returns it through `?` (kv.rs line 150):
\* the temporary file is discarded, the counter is not reset.
CompactionFailed(step, injected) ==
    /\ pc' = "idle"
    /\ tmp' = <<>>
    /\ todo' = {}
    /\ result' = Err("IoError")
    /\ last' = [last EXCEPT ![call.key] = Unknown]
    /\ allOk' = FALSE
    /\ snap' = [snap EXCEPT !.step = step]
    /\ call' = [call EXCEPT !.fault = injected]
    /\ UNCHANGED <<file, opened, offsets, operations, calls, drops, everSet>>

\* One iteration of the loop over offsets.values() (kv.rs lines 164-171);
\* a HashMap iterates in an unspecified order.
CompactCopy ==
    /\ pc = "compact_copy"
    /\ \E key \in todo :
          LET offset == offsets[key]
              data_buffer == read_exact(file.bytes, offset.start, offset.len)
          IN  IF data_buffer.ok
              THEN /\ tmp' = tmp \o to_le_bytes(offset.len) \o data_buffer.data
                   /\ todo' = todo \ {key}
                   /\ UNCHANGED <<file, opened, offsets, operations, pc, call,
                                  result, calls, drops, last, everSet, allOk, snap>>
              ELSE CompactionFailed("read_exact", FALSE)
    /\ UNCHANGED faults

\* flush and fs::rename (kv.rs lines 172-174), then operations = 0 and
\* Ok(()) in append (kv.rs lines 151-154).
CompactRename ==
    /\ pc = "compact_copy" /\ todo = {}
    /\ file' = FileOf(tmp)
    /\ tmp' = <<>>
    /\ operations' = 0
    /\ pc' = "idle"
    /\ result' = Ok(None)
    /\ UNCHANGED <<opened, offsets, todo, call, faults, calls, drops, last, everSet, allOk, snap>>

\* An I/O call of compaction fails for a reason outside the model: opening
\* the log or creating the temporary file, a read or write of the loop,
\* or the rename.
CompactIoFault ==
    /\ pc \in {"compact_open", "compact_copy"}
    /\ faults < MaxFaults
    /\ faults' = faults + 1
    /\ CompactionFailed(IF pc = "compact_open" THEN "open"
                        ELSE IF todo = {} THEN "rename" ELSE "copy", TRUE)

Next ==
    \/ Open
    \/ OpenIoFault
    \/ Drop
    \/ \E key \in Keys : Get(key)
    \/ \E key \in Keys : GetIoFault(key)
    \/ \E key \in Keys, value \in Values : Set(key, value)
    \/ \E key \in Keys : Remove(key)
    \/ \E key \in Keys : RemoveMissing(key)
    \/ CompactOpen
    \/ CompactCopy
    \/ CompactRename
    \/ CompactIoFault

Spec == Init /\ [][Next]_vars

(***************************************************************************)
(* The counter at full scale.  With the threshold of the code a log of     *)
(* byte sequences cannot be enumerated, so this specification follows the  *)
(* counter only: a set that succeeds is counted, its frame and its index   *)
(* entry are not tracked (the log and the index stay empty).  open and the *)
(* steps of compaction are those of Spec.                                  *)
(***************************************************************************)
\* The literal of `if self.operations > 10_000` in append.
CompactionThreshold == 10000

\* The interval the comment on KvStore::operations states.
DocumentedInterval == 1000

\* Bound on the set calls of a run of CountSpec.
MaxCountedCalls == 10003

\* set -> append, every I/O call succeeding, with the counter of the code:
\* `self.operations += 1; if self.operations > 10_000 { compaction }`.
CountedSet(key, value) ==
    /\ opened /\ pc = "idle" /\ calls < MaxCountedCalls
    /\ calls' = calls + 1
    /\ operations' = operations + 1
    /\ call' = Call("set", key, Some(value), FALSE)
    /\ last' = [last EXCEPT ![key] = WasSet(value)]
    /\ everSet' = everSet \cup {key}
    /\ IF operations + 1 > CompactionThreshold
       THEN /\ pc' = "compact_open"
            /\ result' = Pending
            /\ snap' = Snapshot("compact", file, offsets, allOk)
       ELSE /\ pc' = "idle"
            /\ result' = Ok(None)
            /\ snap' = NoSnap
    /\ UNCHANGED <<file, opened, offsets, tmp, todo, faults, drops, allOk>>

NextCount ==
    \/ Open
    \/ \E key \in Keys, value \in Values : CountedSet(key, value)
    \/ CompactOpen
    \/ CompactRename
    \/ CompactIoFault

CountSpec == Init /\ [][NextCount]_vars

(***************************************************************************)
(* Reference reading of a log, as the data model describes it: a           *)
(* concatenation of frames, each a 4-byte length and a payload.            *)
(***************************************************************************)
RECURSIVE FrameBounds(_, _, _)
FrameBounds(bytes, off, acc) ==
    IF off = Len(bytes) THEN [whole |-> TRUE, frames |-> acc]
    ELSE IF Len(bytes) - off < 4 THEN [whole |-> FALSE, frames |-> acc]
    ELSE LET n == from_le_bytes(SubSeq(bytes, off + 1, off + 4))
         IN  IF off + 4 + n > Len(bytes) THEN [whole |-> FALSE, frames |-> acc]
             ELSE FrameBounds(bytes, off + 4 + n,
                              acc \o << [start |-> off + 4, len |-> n] >>)

\* The frames of a log in file order, each with its decoded record.
FramesOf(bytes) ==
    LET fb == FrameBounds(bytes, 0, <<>>).frames
    IN  [i \in 1..Len(fb) |->
            [start |-> fb[i].start, len |-> fb[i].len,
             rec |-> from_slice(SubSeq(bytes, fb[i].start + 1, fb[i].start + fb[i].len))]]

\* The log ends at a frame boundary / every frame decodes to a record.
EndsAtFrameBoundary(bytes) == FrameBounds(bytes, 0, <<>>).whole
WellFormedLog(bytes) ==
    /\ EndsAtFrameBoundary(bytes)
    /\ \A i \in DOMAIN FramesOf(bytes) : FramesOf(bytes)[i].rec.ok

\* The position of the most recent record of key in the log, 0 if none.
LastRecord(bytes, key) ==
    LET fs == FramesOf(bytes)
        at == { i \in DOMAIN fs : fs[i].rec.ok /\ fs[i].rec.key = key }
    IN  IF at = {} THEN 0 ELSE CHOOSE i \in at : \A j \in at : j <= i

\* Keys whose most recent record in the log is a live write.
LiveKeys(bytes) ==
    { k \in Keys : LastRecord(bytes, k) # 0
                   /\ FramesOf(bytes)[LastRecord(bytes, k)].rec.value.some }

\* The value of the most recent record of a live key.
LiveValue(bytes, key) == FramesOf(bytes)[LastRecord(bytes, key)].rec.value

\* The index a replay of the log must produce.
ReferenceIndex(bytes) ==
    [k \in LiveKeys(bytes) |->
        Offset(FramesOf(bytes)[LastRecord(bytes, k)].start,
               FramesOf(bytes)[LastRecord(bytes, k)].len)]

Idle == opened /\ pc = "idle"
\* The last call was a set/remove whose append ran compaction, which ...
CompactionSucceeded == pc = "idle" /\ snap.kind = "compact" /\ result.kind = "Ok"
CompactionAborted == pc = "idle" /\ snap.kind = "compact" /\ result.kind # "Ok"
\* The last call was an open, without an injected fault, after a drop.
Reopened == call.op = "open" /\ ~call.fault /\ snap.kind = "drop"

(***************************************************************************)
(* Claims.                                                                 *)
(***************************************************************************)

\* C1: once set(k, v) has returned Ok, get(k) returns Ok(Some(v)) until a
\* later set(k, _) or remove(k) on the same store, also when the set (or a
\* later call on another key) ran compaction.
C1_GetReturnsLastSet ==
    Idle => \A k \in Keys :
                last[k].st = "set" => GetOf(file, offsets, k) = Ok(Some(last[k].v))

\* C2: immediately after a successful compaction, get(k) and the
\* success/KeyNotFound outcome of remove(k) are, for every key, what they
\* were immediately before it.
C2_CompactionKeepsGetAndRemove ==
    CompactionSucceeded =>
        \A k \in Keys :
            /\ GetOf(file, offsets, k) = GetOf(snap.file, snap.offsets, k)
            /\ (k \in DOMAIN offsets) = (k \in DOMAIN snap.offsets)

\* C3: after a drop of a store whose set/remove calls all succeeded, open
\* on the same directory returns a store whose get(k) is, for every key,
\* what get(k) was on the dropped store.
C3_ReopenKeepsGet ==
    (Reopened /\ snap.clean) =>
        /\ result.kind = "Ok"
        /\ \A k \in Keys : GetOf(file, offsets, k) = GetOf(snap.file, snap.offsets, k)


\* C4: remove(k) of a key that is not in the index fails with KeyNotFound;
\* remove(k) of a key that is in the index returns Ok (no I/O fault having
\* been injected), and get(k) then returns Ok(None) until a later set(k, _).
C4_RemoveOutcome ==
    Idle =>
        /\ (call.op = "remove" /\ faults = 0) =>
               result.kind = (IF call.had THEN "Ok" ELSE "KeyNotFound")
        /\ \A k \in Keys : last[k] = WasRemoved => GetOf(file, offsets, k) = Ok(None)

\* C5: get(k) of a key for which set was never called returns Ok(None).
C5_GetNeverWritten ==
    Idle => \A k \in Keys \ everSet :
                /\ GetOf(file, offsets, k) = Ok(None)
                /\ (call.op = "get" /\ call.key = k) => result = Ok(None)

C5_Witness ==
    /\ Idle /\ call.op = "get" /\ call.key \notin everSet
    /\ DOMAIN offsets # {} /\ calls >= 2

\* C6: between operations, a key is in the index iff the most recent record
\* of that key in the log is a live write.
C6_IndexIffLastRecordLive ==
    (Idle /\ WellFormedLog(file.bytes)) => DOMAIN offsets = LiveKeys(file.bytes)

\* C7: when a compaction completes, the log holds exactly one frame per key
\* of the index, with that key's latest live value, no tombstone and no
\* shadowed write, and is no larger than the log before compaction.
C7_CompactedLog ==
    (CompactionSucceeded /\ WellFormedLog(snap.file.bytes)) =>
        LET fs == FramesOf(file.bytes)
        IN  /\ WellFormedLog(file.bytes)
            /\ Len(fs) = Cardinality(DOMAIN snap.offsets)
            /\ \A k \in DOMAIN snap.offsets :
                   /\ k \in LiveKeys(snap.file.bytes)
                   /\ \E i \in DOMAIN fs :
                          /\ fs[i].rec.key = k
                          /\ fs[i].rec.value = LiveValue(snap.file.bytes, k)
            /\ Len(fs) <= Len(FramesOf(snap.file.bytes))
            /\ Len(file.bytes) <= Len(snap.file.bytes)

\* C8: when compaction fails, at whichever step, the log and the index are
\* what they were when compaction started, the set/remove that ran it
\* returns the I/O error, and the record that call appended is the last
\* frame of the log and is reflected in the index.
C8_FailedCompactionChangesNothing ==
    CompactionAborted =>
        LET frame == Frame(call.key, call.value)
            n == Len(file.bytes)
        IN  /\ file = snap.file
            /\ offsets = snap.offsets
            /\ result.kind = "IoError"
            /\ call.op \in {"set", "remove"}
            /\ n >= Len(frame)
            /\ SubSeq(file.bytes, n - Len(frame) + 1, n) = frame
            /\ IF call.value.some
               THEN /\ call.key \in DOMAIN offsets
                    /\ offsets[call.key] = Offset(n - Len(frame) + 4, Len(frame) - 4)
               ELSE call.key \notin DOMAIN offsets

C8_Witness ==
    /\ CompactionAborted /\ snap.step = "rename"
    /\ Cardinality(DOMAIN offsets) = 2

\* C9: open on a log that ends in a partial frame fails with UnexpectedEOF
\* and returns no store; open on a log that ends at a frame boundary does
\* not fail with UnexpectedEOF.
C9_PartialFrameIsUnexpectedEOF ==
    (call.op = "open" /\ ~call.fault /\ file.exists) =>
        IF EndsAtFrameBoundary(file.bytes)
        THEN result.kind # "UnexpectedEOF"
        ELSE result.kind = "UnexpectedEOF" /\ ~opened

\* C10: on a log of whole valid frames (or no log), open returns a store
\* with counter 0 whose index maps each key whose last record is live to
\* the Location of that record.
C10_OpenReplaysLog ==
    (call.op = "open" /\ ~call.fault /\ WellFormedLog(file.bytes)) =>
        /\ result.kind = "Ok"
        /\ opened
        /\ operations = 0
        /\ offsets = ReferenceIndex(file.bytes)

C10_Witness ==
    /\ call.op = "open" /\ result.kind = "Ok" /\ WellFormedLog(file.bytes)
    /\ Len(FramesOf(file.bytes)) >= 3
    /\ \E i \in DOMAIN FramesOf(file.bytes) : ~FramesOf(file.bytes)[i].rec.value.some
    /\ DOMAIN offsets # {}
    /\ DOMAIN offsets # Keys

\* The Location of an index entry is the payload of a frame of the log: the
\* four bytes before it hold its length, and it decodes to a live record of
\* the entry's key.
LocatesFrameOf(bytes, offset, key) ==
    /\ offset.start >= 4
    /\ offset.start + offset.len <= Len(bytes)
    /\ from_le_bytes(SubSeq(bytes, offset.start - 3, offset.start)) = offset.len
    /\ LET rec == from_slice(SubSeq(bytes, offset.start + 1, offset.start + offset.len))
       IN  rec.ok /\ rec.key = key /\ rec.value.some

\* C11: between operations, also after a compaction has replaced the log,
\* the Location of every index entry is the payload of a frame of the
\* current log that decodes to a live record of the entry's key, and get of
\* a key of the index returns Ok(Some(_)).
C11_IndexLocatesLiveFrames ==
    Idle => \A k \in DOMAIN offsets :
                /\ LocatesFrameOf(file.bytes, offsets[k], k)
                /\ GetOf(file, offsets, k).kind = "Ok"
                /\ GetOf(file, offsets, k).value.some

\* A step in which the append of a set or remove writes its frame and
\* updates the index and the counter (the call returns Ok, or goes on to
\* compaction).
AppendStep ==
    /\ pc = "idle"
    /\ call'.op \in {"set", "remove"}
    /\ result'.kind \in {"Ok", "Pending"}

\* C12: a successful append adds exactly one to the counter; compaction
\* starts in a step iff the step is a successful append that leaves the
\* counter above the threshold; a compaction that succeeds leaves the
\* counter at 0; after open and after a set/remove that returned Ok the
\* counter is in 0..Threshold; no other step (get, a remove failing with
\* KeyNotFound, a failing append) starts compaction or raises the counter.
C12_CompactionTrigger ==
    [][ /\ AppendStep =>
              /\ operations' = operations + 1
              /\ (pc' = "compact_open") = (operations' > Threshold)
        /\ (pc # "compact_open" /\ pc' = "compact_open") => AppendStep
        /\ (pc = "idle" /\ ~AppendStep) =>
              /\ pc' = "idle"
              /\ operations' \in {operations, 0}
        /\ (pc # "idle" /\ pc' = "idle" /\ result'.kind = "Ok") => operations' = 0
        /\ (pc' = "idle" /\ result'.kind = "Ok"
              /\ call'.op \in {"open", "set", "remove"}) =>
              operations' \in 0..Threshold
      ]_vars

\* A set that left the counter at the threshold, then a remove that crossed
\* it and whose compaction succeeded.
C12_Witness ==
    /\ CompactionSucceeded /\ call.op = "remove"
    /\ operations = 0 /\ calls >= Threshold + 1

\* C13: compaction runs after every 1000 operations: between operations, at
\* most 1000 successful set/remove have been counted since the store was
\* opened or the last compaction ended, the next one runs compaction.
C13_CompactionEvery1000 ==
    Idle => operations <= DocumentedInterval

\* The bytes a step added at the end of the log.
Appended == SubSeq(file'.bytes, Len(file.bytes) + 1, Len(file'.bytes))

\* C14: a set or remove that succeeds without running compaction leaves the
\* bytes the log had in place and adds after them exactly one frame, the
\* 4-byte little-endian length of the payload and the payload of the
\* call's record; a log of whole frames stays one; a set on a store without
\* a log file creates the file with that one frame; no step of a call
\* outside compaction shortens the log or changes a byte it had.
C14_AppendOnlyLog ==
    [][ /\ (AppendStep /\ pc' = "idle") =>
              /\ file'.exists
              /\ Len(file'.bytes) > Len(file.bytes) + 4
              /\ SubSeq(file'.bytes, 1, Len(file.bytes)) = file.bytes
              /\ from_le_bytes(SubSeq(Appended, 1, 4)) = Len(Appended) - 4
              /\ LET rec == from_slice(SubSeq(Appended, 5, Len(Appended)))
                 IN  rec.ok /\ rec.key = call'.key /\ rec.value = call'.value
              /\ Appended = Frame(call'.key, call'.value)
              /\ LET before == FrameBounds(file.bytes, 0, <<>>)
                     after == FrameBounds(file'.bytes, 0, <<>>)
                 IN  before.whole =>
                        /\ after.whole
                        /\ Len(after.frames) = Len(before.frames) + 1
              /\ ~file.exists => file'.bytes = Frame(call'.key, call'.value)
        /\ pc = "idle" =>
              /\ Len(file'.bytes) >= Len(file.bytes)
              /\ SubSeq(file'.bytes, 1, Len(file.bytes)) = file.bytes
      ]_vars

\* A remove on a reopened store appended a tombstone after the frame of a
\* set, without compaction.
C14_Witness ==
    /\ Idle /\ call.op = "remove" /\ result = Ok(None) /\ snap.kind = "none"
    /\ WellFormedLog(file.bytes)
    /\ Len(FramesOf(file.bytes)) = 2
    /\ ~FramesOf(file.bytes)[2].rec.value.some

\* What get(key) returns on the store a replay of the log (open) builds.
Replayed(f, key) ==
    LET r == OpenResult(f)
    IN  IF r.kind = "Ok" THEN GetOf(f, r.offsets, key) ELSE Err(r.kind)

\* C15: from the start of a compaction until the call returns, the file at
\* the log's path is the log as it was when compaction started, or, once
\* every index entry was copied and as the last step, the new file; and a
\* replay of the file at the log's path gives every key the value a replay
\* of the log gave it when compaction started.
C15_RenameLastKeepsReplay ==
    (snap.kind = "compact" /\ WellFormedLog(snap.file.bytes)) =>
        /\ \/ file = snap.file
           \/ pc = "idle" /\ result.kind = "Ok" /\ todo = {}
        /\ \A k \in Keys : Replayed(file, k) = Replayed(snap.file, k)

\* A step in which a get call runs and returns.
GetStep == pc = "idle" /\ call'.op = "get"

\* C16: a get, of a key in the index or not, returning Ok or an error,
\* leaves the log file, the index and the counter as they were and does not
\* start compaction.
C16_GetIsReadOnly ==
    [][ GetStep =>
            /\ file' = file
            /\ offsets' = offsets
            /\ operations' = operations
            /\ pc' = "idle"
            /\ opened' = opened
      ]_vars

\* A get of a key of the index failed, without an injected fault, on a store
\* whose counter is not 0.
C16_Witness ==
    /\ Idle /\ call.op = "get" /\ ~call.fault /\ call.had
    /\ result.kind # "Ok"
    /\ operations > 0

\* C17: a remove that returns KeyNotFound appends nothing (and creates no
\* log file), and leaves the index and the counter as they were.
C17_FailedRemoveHasNoEffect ==
    [][ (call'.op = "remove" /\ result'.kind = "KeyNotFound") =>
            /\ file' = file
            /\ offsets' = offsets
            /\ operations' = operations
            /\ pc' = pc
      ]_vars

\* remove of a key that was removed before returned KeyNotFound, on a store
\* with a log, a key in the index and a counter above 0.
C17_Witness ==
    /\ Idle /\ call.op = "remove" /\ result.kind = "KeyNotFound"
    /\ last[call.key] = WasRemoved
    /\ file.exists /\ DOMAIN offsets # {} /\ operations > 0

\* C18: a set or remove whose append fails with an I/O error before the
\* frame is completely written returns the error and leaves the index and
\* the counter as they were; a set/remove step that changes the index or
\* the counter has written the whole frame of its record, and the entry a
\* set puts in the index is the Location of that frame.
C18_FailedAppendChangesNothing ==
    [][ (pc = "idle" /\ call'.op \in {"set", "remove"}) =>
            /\ result'.kind = "IoError" =>
                  /\ offsets' = offsets
                  /\ operations' = operations
                  /\ pc' = "idle"
            /\ (offsets' # offsets \/ operations' # operations) =>
                  /\ result'.kind \in {"Ok", "Pending"}
                  /\ Appended = Frame(call'.key, call'.value)
                  /\ operations' = operations + 1
                  /\ IF call'.value.some
                     THEN /\ call'.key \in DOMAIN offsets'
                          /\ LocatesFrameOf(file'.bytes, offsets'[call'.key], call'.key)
                     ELSE call'.key \notin DOMAIN offsets'
      ]_vars

\* A write of a set or remove was torn, on a store with a non-empty index
\* and a counter above 0.
C18_Witness ==
    /\ Idle /\ call.op \in {"set", "remove"} /\ call.fault
    /\ result.kind = "IoError" /\ snap.kind = "none"
    /\ ~EndsAtFrameBoundary(file.bytes)
    /\ DOMAIN offsets # {} /\ operations > 0

\* C19: a compaction that aborts leaves the counter as it was, above the
\* threshold; while the counter of a store is above the threshold, every
\* successful append of a set or remove starts compaction and no other call
\* changes the counter; the counter of a store comes back from above the
\* threshold only by a compaction that succeeds, which sets it to 0.
C19_AbortedCompactionIsRetried ==
    [][ /\ (pc # "idle" /\ pc' = "idle" /\ result'.kind # "Ok") =>
              /\ operations' = operations
              /\ operations' > Threshold
        /\ (pc = "idle" /\ opened /\ opened' /\ operations > Threshold) =>
              IF AppendStep
              THEN pc' = "compact_open" /\ operations' = operations + 1
              ELSE pc' = "idle" /\ operations' = operations
        /\ (opened' /\ operations > Threshold /\ operations' <= Threshold) =>
              /\ pc = "compact_copy" /\ pc' = "idle"
              /\ result'.kind = "Ok"
              /\ operations' = 0
      ]_vars

\* After a compaction that aborted, a second append started compaction
\* again.
C19_Witness ==
    /\ pc = "compact_open" /\ operations > Threshold + 1

====
